---- MODULE Spec2Model ----
(***************************************************************************)
(* A model of the CHIP-8 interpreter of src/src/lib.rs (module emulator)   *)
(* and of its driver src/src/main.rs.                                      *)
(*                                                                         *)
(* The machine (struct Chip8) is a record; every handler opXXXX of the     *)
(* source is an operator from a machine record to a machine record, and    *)
(* execute_instruction, run, load and load_from_file compose them exactly  *)
(* as the source does.  A Rust panic (index out of bounds, unwrap on None, *)
(* the explicit panic! of the decoder, an overflow check of a debug build) *)
(* is the field `panicked` of the returned record: the fields then hold    *)
(* what had been written when the panic was raised.                        *)
(***************************************************************************)
EXTENDS Integers, Sequences, FiniteSets, TLC

VARIABLES
    registers,        \* Chip8.registers : Register {v: [u8; 16], i: u16}
    timers,           \* Chip8.timers    : Timer {sound: u8, delay: u8}
    screen,           \* Chip8.screen    : Screen {pixels: [bool; 2048]}
    memory,           \* Chip8.memory    : [u8; 4096]
    stack,            \* Chip8.stack     : Vec<u16>
    pc,               \* Chip8.pc        : u16
    keyboard,         \* Chip8.keyboard  : Keyboard {keymap: [bool; 16]}
    phase,            \* where the process is: "new", "loop", "exit", "panic",
                      \* or, for a direct caller of the library, "api", "done"
    overflow_checks,  \* the build profile: TRUE = arithmetic overflow panics
    ins,              \* the instruction word last handed to execute_instruction
    handler,          \* the match arm execute_instruction took for it
    set_call,         \* the last Screen::set call: its arguments and result
    timer_log         \* history: for each timer, the value the last Fx15 /
                      \* Fx18 set it to and the frames completed since

vars == <<registers, timers, screen, memory, stack, pc, keyboard, phase,
          overflow_checks, ins, handler, set_call, timer_log>>

(***************************************************************************)
(* Program constants.                                                      *)
(***************************************************************************)
MEMORY_SIZE == 4096
N_PIXELS == 2048
COLS == 64
ROWS == 32
N_REGISTERS == 16
N_KEYS == 16
PROGRAM_START == 512
FONT_SIZE == 80
U8 == 256
U16 == 65536
VF == 15

Byte == 0..(U8 - 1)
RegIdx == 0..(N_REGISTERS - 1)

(***************************************************************************)
(* Bounds of the model.                                                    *)
(***************************************************************************)
\* The deepest call stack a behaviour may build (Vec<u16> is unbounded).
MaxStack == 3
\* How many of the polled keys may be down in one frame.
MaxKeysDown == 2
\* For how many frames the history follows a timer after it was set.
MaxTicks == 8

(***************************************************************************)
(* Bit arithmetic on bytes.                                                *)
(***************************************************************************)
RECURSIVE Pow2(_)
Pow2(k) == IF k = 0 THEN 1 ELSE 2 * Pow2(k - 1)

Bit(a, k) == (a \div Pow2(k)) % 2

BitAnd(a, b) == LET f[k \in 0..8] ==
                      IF k = 8 THEN 0
                      ELSE Pow2(k) * (Bit(a, k) * Bit(b, k)) + f[k + 1]
                IN f[0]

BitOr(a, b) == LET f[k \in 0..8] ==
                     IF k = 8 THEN 0
                     ELSE Pow2(k) * (IF Bit(a, k) + Bit(b, k) > 0 THEN 1 ELSE 0)
                          + f[k + 1]
               IN f[0]

BitXor(a, b) == LET f[k \in 0..8] ==
                      IF k = 8 THEN 0
                      ELSE Pow2(k) * ((Bit(a, k) + Bit(b, k)) % 2) + f[k + 1]
                IN f[0]

\* u8::wrapping_add, u8::wrapping_sub
wrapping_add(a, b) == (a + b) % U8
wrapping_sub(a, b) == (a - b + U8) % U8

\* fn nibbles(u: u16) -> (u16, u16, u16, u16)
nibbles(u) == << (u \div 4096) % 16, (u \div 256) % 16, (u \div 16) % 16, u % 16 >>

(***************************************************************************)
(* The built-in font: the table `v` of Chip8::load.                        *)
(***************************************************************************)
FONT == << 240, 144, 144, 144, 240,   32,  96,  32,  32, 112,
           240,  16, 240, 128, 240,  240,  16, 240,  16, 240,
           144, 144, 240,  16,  16,  240, 128, 240,  16, 240,
           240, 128, 240, 144, 240,  240,  16,  32,  64,  64,
           240, 144, 240, 144, 240,  240, 144, 240,  16, 240,
           240, 144, 240, 144, 144,  224, 144, 224, 144, 224,
           240, 128, 128, 128, 240,  224, 144, 144, 144, 224,
           240, 128, 240, 128, 240,  240, 128, 240, 128, 128 >>

(***************************************************************************)
(* Screen.                                                                 *)
(***************************************************************************)
\* Screen::new
Screen_new == [pixels |-> [p \in 0..(N_PIXELS - 1) |-> FALSE]]

\* Screen::set without the wrap of the column: the index runs on into
\* the following rows and is wrapped at the end of the buffer
Screen_set_nowrap(s, row, col, val) ==
    LET row_ == row % ROWS
        idx  == (row_ * COLS + col) % N_PIXELS
        ans  == IF s.pixels[idx] /\ val THEN 1 ELSE 0
    IN [screen |-> [s EXCEPT !.pixels[idx] = (s.pixels[idx] # val)],
        ans    |-> ans]

\* Screen::set: the screen after the call and the returned collision bit.
\* The index row_ * cols + col_ is below 2048 for every row and col.
Screen_set(s, row, col, val) ==
    LET row_ == row % ROWS
        col_ == col % COLS
        idx  == row_ * COLS + col_
        ans  == IF s.pixels[idx] /\ val THEN 1 ELSE 0
    IN [screen |-> [s EXCEPT !.pixels[idx] = (s.pixels[idx] # val)],
        ans    |-> ans]

(***************************************************************************)
(* Chip8.                                                                  *)
(***************************************************************************)
\* Chip8::new
Chip8_new ==
    [registers |-> [v |-> [k \in RegIdx |-> 0], i |-> 0],
     timers    |-> [sound |-> 0, delay |-> 0],
     screen    |-> Screen_new,
     memory    |-> [a \in 0..(MEMORY_SIZE - 1) |-> 0],
     stack     |-> << >>,
     pc        |-> PROGRAM_START,
     keyboard  |-> [keymap |-> [k \in 0..(N_KEYS - 1) |-> FALSE]],
     panicked  |-> FALSE,
     overflow_checks |-> FALSE]

\* A panic: the process dies with the state as it is.
Panic(c) == [c EXCEPT !.panicked = TRUE]

\* Chip8::load.  The slice memory[0x200..0x200 + len] is taken first and
\* panics, before any byte is written, when it ends beyond the memory.
load(c, program) ==
    IF PROGRAM_START + Len(program) > MEMORY_SIZE
    THEN Panic(c)
    ELSE [c EXCEPT !.memory =
            [a \in 0..(MEMORY_SIZE - 1) |->
                IF a < FONT_SIZE THEN FONT[a + 1]
                ELSE IF a >= PROGRAM_START /\ a < PROGRAM_START + Len(program)
                     THEN program[a - PROGRAM_START + 1]
                     ELSE c.memory[a]]]

\* Chip8::load_from_file with the error of a failed read ignored up to the
\* call of load: what was read before the error is loaded
load_from_file_partial(c, file) ==
    IF ~file.found THEN [c |-> c, result |-> "Err"]
    ELSE IF file.fails
         THEN [c |-> load(c, SubSeq(file.bytes, 1, file.read)), result |-> "Err"]
         ELSE [c |-> load(c, file.bytes), result |-> "Ok"]

\* Chip8::load_from_file: the machine after the call and the Result.  The
\* file may not open (`File::open(..)?`), or read_to_end may fail after
\* file.read bytes went into the local buffer (`read_to_end(..)?`): both
\* return the error before load is called.  Otherwise the buffer holds the
\* whole file and is loaded.
load_from_file(c, file) ==
    IF ~file.found THEN [c |-> c, result |-> "Err"]
    ELSE IF file.fails
         THEN [c |-> c, result |-> "Err"]
         ELSE [c |-> load(c, file.bytes), result |-> "Ok"]

(***************************************************************************)
(* The instruction handlers.  `self.pc += 2` cannot overflow a u16: pc is  *)
(* at most 4095 + 255 after a jump and grows by at most 4 per instruction  *)
(* of the bounded behaviours below.                                        *)
(***************************************************************************)
SetV(c, x, val) == [c EXCEPT !.registers.v[x] = val]
SetFlag(c, val) == [c EXCEPT !.registers.v[VF] = val]
Advance(c) == [c EXCEPT !.pc = @ + 2]
InMemory(a) == a >= 0 /\ a < MEMORY_SIZE

\* op00E0 without its `self.pc += 2`
op00E0_stay(c) == [c EXCEPT !.screen = Screen_new]

op00E0(c) == Advance([c EXCEPT !.screen = Screen_new])

\* op00EE returning to the call itself instead of its successor
op00EE_noskip(c) ==
    IF Len(c.stack) = 0 THEN Panic(c)
    ELSE [c EXCEPT !.pc = c.stack[Len(c.stack)],
                   !.stack = SubSeq(c.stack, 1, Len(c.stack) - 1)]

\* stack.pop().unwrap() panics on an empty stack
op00EE(c) ==
    IF Len(c.stack) = 0 THEN Panic(c)
    ELSE [c EXCEPT !.pc = c.stack[Len(c.stack)] + 2,
                   !.stack = SubSeq(c.stack, 1, Len(c.stack) - 1)]

op1nnn(c, nnn) == [c EXCEPT !.pc = nnn]

op2nnn(c, nnn) == [c EXCEPT !.stack = Append(c.stack, c.pc), !.pc = nnn]

op3xkk(c, x, kk) ==
    [c EXCEPT !.pc = IF c.registers.v[x] = kk THEN @ + 4 ELSE @ + 2]

op4xkk(c, x, kk) ==
    [c EXCEPT !.pc = IF c.registers.v[x] # kk THEN @ + 4 ELSE @ + 2]

op5xy0(c, x, y) ==
    [c EXCEPT !.pc = IF c.registers.v[x] = c.registers.v[y] THEN @ + 4 ELSE @ + 2]

op6xkk(c, x, kk) == Advance(SetV(c, x, kk))

op7xkk(c, x, kk) == Advance(SetV(c, x, wrapping_add(c.registers.v[x], kk)))

op8xy0(c, x, y) == Advance(SetV(c, x, c.registers.v[y]))

\* op8xy1 without its `self.registers.v[0xf] = 0`
op8xy1_keep_flag(c, x, y) ==
    Advance(SetV(c, x, BitOr(c.registers.v[x], c.registers.v[y])))

op8xy1(c, x, y) ==
    Advance(SetFlag(SetV(c, x, BitOr(c.registers.v[x], c.registers.v[y])), 0))

op8xy2(c, x, y) ==
    Advance(SetFlag(SetV(c, x, BitAnd(c.registers.v[x], c.registers.v[y])), 0))

op8xy3(c, x, y) ==
    Advance(SetFlag(SetV(c, x, BitXor(c.registers.v[x], c.registers.v[y])), 0))

\* op8xy4 writing the flag before the sum, so that the sum reads it
op8xy4_flag_first(c, x, y) ==
    LET val == c.registers.v[x] + c.registers.v[y]
        c1  == SetFlag(c, IF val > 255 THEN 1 ELSE 0)
    IN Advance(SetV(c1, x, wrapping_add(c1.registers.v[x], c1.registers.v[y])))

\* val is the 16-bit sum of the operands as they were; v[x] is written
\* first and the flag after it, so that the flag wins when x = 15.
op8xy4(c, x, y) ==
    LET val == c.registers.v[x] + c.registers.v[y]
        c1  == SetV(c, x, wrapping_add(c.registers.v[x], c.registers.v[y]))
    IN Advance(SetFlag(c1, IF val > 255 THEN 1 ELSE 0))

\* op8xy5 with the borrow test off by one: equal operands clear the flag
op8xy5_strict(c, x, y) ==
    LET xx == c.registers.v[x]
        yy == c.registers.v[y]
        c1 == SetV(c, x, wrapping_sub(c.registers.v[x], c.registers.v[y]))
    IN Advance(SetFlag(c1, IF xx <= yy THEN 0 ELSE 1))

op8xy5(c, x, y) ==
    LET xx == c.registers.v[x]
        yy == c.registers.v[y]
        c1 == SetV(c, x, wrapping_sub(c.registers.v[x], c.registers.v[y]))
    IN Advance(SetFlag(c1, IF xx < yy THEN 0 ELSE 1))

\* op8xy6 taking the flag from the shifted value
op8xy6_shifted(c, x, y) ==
    LET xx == c.registers.v[x]
        c1 == SetV(c, x, xx \div 2)
    IN Advance(SetFlag(c1, c1.registers.v[x] % 2))

op8xy6(c, x, y) ==
    LET xx == c.registers.v[x]
        c1 == SetV(c, x, xx \div 2)
    IN Advance(SetFlag(c1, xx % 2))

op8xy7(c, x, y) ==
    LET xx == c.registers.v[x]
        yy == c.registers.v[y]
        c1 == SetV(c, x, wrapping_sub(c.registers.v[y], c.registers.v[x]))
    IN Advance(SetFlag(c1, IF yy < xx THEN 0 ELSE 1))

\* `<<= 1` on a u8 drops the high bit without an overflow check
op8xyE(c, x, y) ==
    LET xx == c.registers.v[x]
        c1 == SetV(c, x, (xx * 2) % U8)
    IN Advance(SetFlag(c1, (xx \div 128) % 2))

op9xy0(c, x, y) ==
    [c EXCEPT !.pc = IF c.registers.v[x] # c.registers.v[y] THEN @ + 4 ELSE @ + 2]

opAnnn(c, nnn) == Advance([c EXCEPT !.registers.i = nnn])

opBnnn(c, nnn) == [c EXCEPT !.pc = nnn + c.registers.v[0]]

\* macroquad::rand::gen_range(0, 255): the upper end is exclusive
gen_range == 0..254

\* r is the byte the generator returned
opCxkk(c, x, kk, r) == Advance(SetV(c, x, BitAnd(r, kk)))

\* The body of the loops of opDxyn for one byte and bit.  The operand
\* registers are read again in every iteration, after the flag register
\* has been reset and while collisions are being ORed into it.
DrawStep(c, x, y, byte, bit) ==
    LET pixel == Bit(c.memory[c.registers.i + byte], 7 - bit)
        r     == Screen_set(c.screen, c.registers.v[y] + byte,
                            c.registers.v[x] + bit, pixel = 1)
    IN [c EXCEPT !.screen = r.screen,
                 !.registers.v[VF] = BitOr(@, r.ans)]

\* The inner loop, `for bit in 0..8`, for one sprite byte.
DrawByte(c, x, y, byte) ==
    LET c0 == DrawStep(c, x, y, byte, 0)
        c1 == DrawStep(c0, x, y, byte, 1)
        c2 == DrawStep(c1, x, y, byte, 2)
        c3 == DrawStep(c2, x, y, byte, 3)
        c4 == DrawStep(c3, x, y, byte, 4)
        c5 == DrawStep(c4, x, y, byte, 5)
        c6 == DrawStep(c5, x, y, byte, 6)
    IN DrawStep(c6, x, y, byte, 7)

\* The outer loop, `for byte in 0..n`, from sprite byte b on; reading a
\* sprite byte beyond the memory panics with the rows before it drawn.
RECURSIVE DrawLoop(_, _, _, _, _)
DrawLoop(c, x, y, n, b) ==
    IF b >= n THEN c
    ELSE IF ~InMemory(c.registers.i + b) THEN Panic(c)
    ELSE DrawLoop(DrawByte(c, x, y, b), x, y, n, b + 1)

opDxyn(c, x, y, n) ==
    LET c1 == DrawLoop(SetFlag(c, 0), x, y, n, 0)
    IN IF c1.panicked THEN c1 ELSE Advance(c1)

\* keymap has 16 entries: a register value above 15 is out of bounds,
\* after the first pc += 2.
opEx9E(c, x) ==
    IF c.registers.v[x] >= N_KEYS THEN Panic(Advance(c))
    ELSE [c EXCEPT !.pc = IF c.keyboard.keymap[c.registers.v[x]] THEN @ + 4 ELSE @ + 2]

opExA1(c, x) ==
    IF c.registers.v[x] >= N_KEYS THEN Panic(Advance(c))
    ELSE [c EXCEPT !.pc = IF ~c.keyboard.keymap[c.registers.v[x]] THEN @ + 4 ELSE @ + 2]

opFx07(c, x) == Advance(SetV(c, x, c.timers.delay))

\* The keys that are down; the loop returns at the first, the lowest.
KeysDown(c) == {k \in 0..(N_KEYS - 1) : c.keyboard.keymap[k]}
Lowest(S) == CHOOSE k \in S : \A j \in S : k <= j

\* opFx0A scanning the keys from the highest down
opFx0A_highest(c, x) ==
    IF KeysDown(c) = {} THEN c
    ELSE Advance(SetV(c, x, CHOOSE k \in KeysDown(c) : \A j \in KeysDown(c) : k >= j))

opFx0A(c, x) ==
    IF KeysDown(c) = {} THEN c
    ELSE Advance(SetV(c, x, Lowest(KeysDown(c))))

opFx15(c, x) == Advance([c EXCEPT !.timers.delay = c.registers.v[x]])

\* opFx18 setting both timers
opFx18_both(c, x) ==
    Advance([c EXCEPT !.timers.sound = c.registers.v[x],
                      !.timers.delay = c.registers.v[x]])

opFx18(c, x) == Advance([c EXCEPT !.timers.sound = c.registers.v[x]])

\* `i += v[x]` on a u16: a build with overflow checks panics when the sum
\* does not fit, a build without them wraps.
opFx1E(c, x) ==
    LET sum == c.registers.i + c.registers.v[x]
    IN IF sum >= U16 /\ c.overflow_checks THEN Panic(c)
       ELSE Advance([c EXCEPT !.registers.i = sum % U16])

opFx29(c, x) == Advance([c EXCEPT !.registers.i = c.registers.v[x] * 5])

\* Three stores in order; the first one out of bounds panics.
opFx33(c, x) ==
    LET xx == c.registers.v[x]
        i  == c.registers.i
        digit(k) == IF k = 0 THEN xx \div 100
                    ELSE IF k = 1 THEN (xx \div 10) % 10 ELSE xx % 10
        stored == {k \in 0..2 : \A j \in 0..k : InMemory(i + j)}
        c1 == [c EXCEPT !.memory =
                 [a \in 0..(MEMORY_SIZE - 1) |->
                    IF a - i \in stored THEN digit(a - i) ELSE c.memory[a]]]
    IN IF stored = 0..2 THEN Advance(c1) ELSE Panic(c1)

\* for i in 0..x + 1: the stores before the first one out of bounds happen.
\* index + x + 1 fits a u16 whenever every store was in bounds.
opFx55(c, x) ==
    LET i == c.registers.i
        stored == {k \in 0..x : InMemory(i + k)}
        c1 == [c EXCEPT !.memory =
                 [a \in 0..(MEMORY_SIZE - 1) |->
                    IF a - i \in stored THEN c.registers.v[a - i] ELSE c.memory[a]]]
    IN IF stored = 0..x
       THEN Advance([c1 EXCEPT !.registers.i = i + x + 1])
       ELSE Panic(c1)

\* opFx65 with the loop `for i in 0..x`, one register short
opFx65_exclusive(c, x) ==
    LET i == c.registers.i
        loaded == {k \in 0..(x - 1) : InMemory(i + k)}
        c1 == [c EXCEPT !.registers.v =
                 [k \in RegIdx |->
                    IF k \in loaded THEN c.memory[i + k] ELSE c.registers.v[k]]]
    IN IF loaded = 0..(x - 1)
       THEN Advance([c1 EXCEPT !.registers.i = i + x + 1])
       ELSE Panic(c1)

opFx65(c, x) ==
    LET i == c.registers.i
        loaded == {k \in 0..x : InMemory(i + k)}
        c1 == [c EXCEPT !.registers.v =
                 [k \in RegIdx |->
                    IF k \in loaded THEN c.memory[i + k] ELSE c.registers.v[k]]]
    IN IF loaded = 0..x
       THEN Advance([c1 EXCEPT !.registers.i = i + x + 1])
       ELSE Panic(c1)

(***************************************************************************)
(* Chip8::execute_instruction.                                             *)
(***************************************************************************)
\* The arm of `match nibbles(ins)` that is taken, by the name of the handler
\* it calls; "panic" is the default arm.  Rust takes the first arm that
\* matches: (0, 0, E, E) comes before (0, _, _, _), and no two other arms
\* overlap.
decode(w) ==
    LET n  == nibbles(w)
        n1 == n[1]
        n3 == n[3]
        n4 == n[4]
    IN CASE n1 = 0 /\ n[2] = 0 /\ n3 = 14 /\ n4 = 14 -> "op00EE"
         [] n1 = 0 /\ ~(n[2] = 0 /\ n3 = 14 /\ n4 = 14) -> "op00E0"
         [] n1 = 1 -> "op1nnn"
         [] n1 = 2 -> "op2nnn"
         [] n1 = 3 -> "op3xkk"
         [] n1 = 4 -> "op4xkk"
         [] n1 = 5 -> "op5xy0"
         [] n1 = 6 -> "op6xkk"
         [] n1 = 7 -> "op7xkk"
         [] n1 = 8 /\ n4 = 0 -> "op8xy0"
         [] n1 = 8 /\ n4 = 1 -> "op8xy1"
         [] n1 = 8 /\ n4 = 2 -> "op8xy2"
         [] n1 = 8 /\ n4 = 3 -> "op8xy3"
         [] n1 = 8 /\ n4 = 4 -> "op8xy4"
         [] n1 = 8 /\ n4 = 5 -> "op8xy5"
         [] n1 = 8 /\ n4 = 6 -> "op8xy6"
         [] n1 = 8 /\ n4 = 7 -> "op8xy7"
         [] n1 = 8 /\ n4 = 14 -> "op8xyE"
         [] n1 = 9 -> "op9xy0"
         [] n1 = 10 -> "opAnnn"
         [] n1 = 11 -> "opBnnn"
         [] n1 = 12 -> "opCxkk"
         [] n1 = 13 -> "opDxyn"
         [] n1 = 14 /\ n4 = 14 -> "opEx9E"
         [] n1 = 14 /\ n4 = 1 -> "opExA1"
         [] n1 = 15 /\ n3 = 0 /\ n4 = 7 -> "opFx07"
         [] n1 = 15 /\ n3 = 0 /\ n4 = 10 -> "opFx0A"
         [] n1 = 15 /\ n3 = 1 /\ n4 = 5 -> "opFx15"
         [] n1 = 15 /\ n3 = 1 /\ n4 = 8 -> "opFx18"
         [] n1 = 15 /\ n3 = 1 /\ n4 = 14 -> "opFx1E"
         [] n1 = 15 /\ n3 = 2 -> "opFx29"
         [] n1 = 15 /\ n3 = 3 -> "opFx33"
         [] n1 = 15 /\ n3 = 5 -> "opFx55"
         [] n1 = 15 /\ n3 = 6 -> "opFx65"
         [] OTHER -> "panic"

\* The operand fields of an instruction word.
field_x(w) == (w \div 256) % 16
field_y(w) == (w \div 16) % 16
field_nnn(w) == w % 4096
field_kk(w) == w % 256
field_n(w) == w % 16

\* r is the byte the random generator returns, should opCxkk ask for one.
execute_instruction(c, w, r) ==
    LET x   == field_x(w)
        y   == field_y(w)
        nnn == field_nnn(w)
        kk  == field_kk(w)
        n   == field_n(w)
        h   == decode(w)
    IN CASE h = "op00EE" -> op00EE(c)
         [] h = "op00E0" -> op00E0(c)
         [] h = "op1nnn" -> op1nnn(c, nnn)
         [] h = "op2nnn" -> op2nnn(c, nnn)
         [] h = "op3xkk" -> op3xkk(c, x, kk)
         [] h = "op4xkk" -> op4xkk(c, x, kk)
         [] h = "op5xy0" -> op5xy0(c, x, y)
         [] h = "op6xkk" -> op6xkk(c, x, kk)
         [] h = "op7xkk" -> op7xkk(c, x, kk)
         [] h = "op8xy0" -> op8xy0(c, x, y)
         [] h = "op8xy1" -> op8xy1(c, x, y)
         [] h = "op8xy2" -> op8xy2(c, x, y)
         [] h = "op8xy3" -> op8xy3(c, x, y)
         [] h = "op8xy4" -> op8xy4(c, x, y)
         [] h = "op8xy5" -> op8xy5(c, x, y)
         [] h = "op8xy6" -> op8xy6(c, x, y)
         [] h = "op8xy7" -> op8xy7(c, x, y)
         [] h = "op8xyE" -> op8xyE(c, x, y)
         [] h = "op9xy0" -> op9xy0(c, x, y)
         [] h = "opAnnn" -> opAnnn(c, nnn)
         [] h = "opBnnn" -> opBnnn(c, nnn)
         [] h = "opCxkk" -> opCxkk(c, x, kk, r)
         [] h = "opDxyn" -> opDxyn(c, x, y, n)
         [] h = "opEx9E" -> opEx9E(c, x)
         [] h = "opExA1" -> opExA1(c, x)
         [] h = "opFx07" -> opFx07(c, x)
         [] h = "opFx0A" -> opFx0A(c, x)
         [] h = "opFx15" -> opFx15(c, x)
         [] h = "opFx18" -> opFx18(c, x)
         [] h = "opFx1E" -> opFx1E(c, x)
         [] h = "opFx29" -> opFx29(c, x)
         [] h = "opFx33" -> opFx33(c, x)
         [] h = "opFx55" -> opFx55(c, x)
         [] h = "opFx65" -> opFx65(c, x)
         [] OTHER -> Panic(c)

(***************************************************************************)
(* Chip8::run: one frame.                                                  *)
(***************************************************************************)
\* The instruction word at pc, big-endian.
fetch(c) == c.memory[c.pc] * 256 + c.memory[c.pc + 1]

\* the decrements without their `> 0` tests, wrapping as a u8
tick_timers_wrapping(c) ==
    [c EXCEPT !.timers.delay = (@ + U8 - 1) % U8,
              !.timers.sound = (@ + U8 - 1) % U8]

\* The two decrements that end a frame.
tick_timers(c) ==
    [c EXCEPT !.timers.delay = IF @ > 0 THEN @ - 1 ELSE @,
              !.timers.sound = IF @ > 0 THEN @ - 1 ELSE @]

\* keys is what is_key_down answers for the 16 keys; r as above.  Reading
\* memory[pc] or memory[pc + 1] beyond the memory panics; a panic of the
\* handler leaves the timers as they are.
run(c, keys, r) ==
    LET c1 == [c EXCEPT !.keyboard.keymap = keys]
    IN IF ~(InMemory(c1.pc) /\ InMemory(c1.pc + 1)) THEN Panic(c1)
       ELSE LET c2 == execute_instruction(c1, fetch(c1), r)
            IN IF c2.panicked THEN c2 ELSE tick_timers(c2)

(***************************************************************************)
(* The state of the model as a machine record, and back.                   *)
(***************************************************************************)
Self ==
    [registers |-> registers, timers |-> timers, screen |-> screen,
     memory |-> memory, stack |-> stack, pc |-> pc, keyboard |-> keyboard,
     panicked |-> FALSE, overflow_checks |-> overflow_checks]

Becomes(c) ==
    /\ registers' = c.registers
    /\ timers' = c.timers
    /\ screen' = c.screen
    /\ memory' = c.memory
    /\ stack' = c.stack
    /\ pc' = c.pc
    /\ keyboard' = c.keyboard

Holds(c) ==
    /\ registers = c.registers
    /\ timers = c.timers
    /\ screen = c.screen
    /\ memory = c.memory
    /\ stack = c.stack
    /\ pc = c.pc
    /\ keyboard = c.keyboard

NoSetCall == [row |-> 0, col |-> 0, val |-> FALSE, ans |-> 0, called |-> FALSE]

\* The history of the timers: nothing set yet; one more frame completed
\* since a timer was set, followed for MaxTicks frames; and the history
\* after a frame that completed and executed handler h, whose register x
\* held val before it.
NoTimerSet == [set |-> FALSE, v |-> 0, ticks |-> 0]
NoTimerLog == [delay |-> NoTimerSet, sound |-> NoTimerSet]
Aged(e) ==
    IF e.set /\ e.ticks < MaxTicks THEN [e EXCEPT !.ticks = @ + 1]
    ELSE NoTimerSet
Logged(log, h, val) ==
    [delay |-> IF h = "opFx15" THEN [set |-> TRUE, v |-> val, ticks |-> 1]
               ELSE Aged(log.delay),
     sound |-> IF h = "opFx18" THEN [set |-> TRUE, v |-> val, ticks |-> 1]
               ELSE Aged(log.sound)]

\* `let mut e = Chip8::new()` under either build profile.
InitMachine ==
    /\ Holds(Chip8_new)
    /\ overflow_checks \in BOOLEAN
    /\ ins = 0
    /\ handler = ""
    /\ set_call = NoSetCall
    /\ timer_log = NoTimerLog

(***************************************************************************)
(* The inputs of the driver: program images and key states.                *)
(***************************************************************************)
\* A program image from its instruction words, high byte first.
Image(words) ==
    [k \in 1..(2 * Len(words)) |->
        IF k % 2 = 1 THEN words[(k + 1) \div 2] \div 256
                     ELSE words[k \div 2] % 256]

\* clear the screen, jump back
ROM_CLEAR == << \h00E0, \h1200 >>
\* wait for a key into v5, then into v15, and again
ROM_KEYS == << \hF50A, \hFF0A, \h1200 >>
\* nested calls: 200 calls 206, which calls 20A; then 200's successor
\* calls 20A itself
ROM_CALLS == << \h2206, \h220A, \h1200, \h220A, \h00EE, \h00EE >>
\* a subroutine that calls itself
ROM_RECURSE == << \h2200 >>
\* a return without a call
ROM_RETURN == << \h00EE >>
\* set both timers, read the delay timer back, wait for a key, repeat
ROM_TIMERS == << \h6005, \hF015, \h6104, \hF118, \hF207, \hF30A, \h1208 >>
\* an instruction word no arm matches
ROM_INVALID == << \h6001, \h8018 >>
\* a jump to the last byte of the memory
ROM_JUMP_END == << \h1FFF >>
\* a jump to 0xFFF + v0 with v0 = 255
ROM_JUMP_OFFSET == << \h60FF, \hBFFF >>

Programs == { Image(w) : w \in { ROM_CLEAR, ROM_KEYS, ROM_CALLS, ROM_RECURSE,
                                 ROM_RETURN, ROM_TIMERS, ROM_INVALID,
                                 ROM_JUMP_END, ROM_JUMP_OFFSET } }

\* The files main may be pointed at: none, a program file that reads to its
\* end, and a program file whose read fails at its start or after 2 bytes.
FailsAfter == {0, 2}
\* a file one byte longer than the memory from 0x200 on
Oversized == [k \in 1..(MEMORY_SIZE - PROGRAM_START + 1) |-> 0]
Files ==
    { [found |-> FALSE, bytes |-> << >>, read |-> 0, fails |-> FALSE],
      [found |-> TRUE, bytes |-> Oversized, read |-> Len(Oversized),
       fails |-> FALSE] }
    \cup { [found |-> TRUE, bytes |-> p, read |-> Len(p), fails |-> FALSE] :
             p \in Programs }
    \cup { [found |-> TRUE, bytes |-> p, read |-> k, fails |-> TRUE] :
             p \in Programs, k \in FailsAfter }

\* The keys the host is seen to hold down, at most MaxKeysDown at a time.
PolledKeys == {0, 7, 15}
KeyStates ==
    { [k \in 0..(N_KEYS - 1) |-> k \in down] :
        down \in {d \in SUBSET PolledKeys : Cardinality(d) <= MaxKeysDown} }

(***************************************************************************)
(* src/src/main.rs: new, load_from_file, then run once per frame.          *)
(***************************************************************************)
Init ==
    /\ InitMachine
    /\ phase = "new"

\* `e.load_from_file(&args[1])` and main's handling of its result: on an
\* error main prints and exits, otherwise it enters its loop.
LoadFromFile ==
    /\ phase = "new"
    /\ \E file \in Files :
         LET r == load_from_file(Self, file)
         IN /\ Becomes(r.c)
            /\ phase' = IF r.c.panicked THEN "panic"
                        ELSE IF r.result = "Err" THEN "exit" ELSE "loop"
    /\ UNCHANGED <<overflow_checks, ins, handler, set_call, timer_log>>

\* One frame of main's loop: e.run().
Run ==
    /\ phase = "loop"
    /\ \E keys \in KeyStates :
       LET fetched == InMemory(pc) /\ InMemory(pc + 1)
           w == IF fetched THEN fetch(Self) ELSE ins
       IN \E r \in (IF fetched /\ decode(w) = "opCxkk" THEN gen_range ELSE {0}) :
          LET c == run(Self, keys, r)
          IN /\ Len(c.stack) <= MaxStack
             /\ Becomes(c)
             /\ phase' = IF c.panicked THEN "panic" ELSE "loop"
             /\ ins' = w
             /\ handler' = IF fetched THEN decode(w) ELSE handler
             /\ timer_log' = IF c.panicked THEN timer_log
                             ELSE Logged(timer_log, decode(w),
                                         registers.v[field_x(w)])
    /\ UNCHANGED <<overflow_checks, set_call>>

Next == LoadFromFile \/ Run

Spec == Init /\ [][Next]_vars

(***************************************************************************)
(* A direct caller of the library: a machine in some state, and one call   *)
(* of the public Chip8::execute_instruction.                               *)
(***************************************************************************)
\* One call with a word of pool; rnd are the bytes the generator may give.
Execute(pool, rnd) ==
    /\ phase = "api"
    /\ \E w \in pool :
       \E r \in (IF decode(w) = "opCxkk" THEN rnd ELSE {0}) :
          LET c == execute_instruction(Self, w, r)
          IN /\ Becomes(c)
             /\ phase' = IF c.panicked THEN "panic" ELSE "done"
             /\ ins' = w
             /\ handler' = decode(w)
    /\ UNCHANGED <<overflow_checks, set_call, timer_log>>

\* The machine after the call, as a record.
SelfAfter ==
    [registers |-> registers', timers |-> timers', screen |-> screen',
     memory |-> memory', stack |-> stack', pc |-> pc', keyboard |-> keyboard',
     panicked |-> FALSE, overflow_checks |-> overflow_checks']

(***************************************************************************)
(* Decoding: instruction words handed to a new machine.                    *)
(***************************************************************************)
AllWords == 0..(U16 - 1)
\* Every opcode nibble and every low byte, with the x nibble one of three.
OperandX == {0, 1, 15}
DecodeWords == {w \in AllWords : field_x(w) \in OperandX}

InitDecode ==
    /\ InitMachine
    /\ phase = "api"

ExecuteAnyWord == Execute(DecodeWords, {0, 254})

SpecDecode == InitDecode /\ [][ExecuteAnyWord]_vars

(***************************************************************************)
(* Register arithmetic: one 8xy4, 8xy5 or 8xy7 on a machine whose          *)
(* registers hold sample bytes (a in the even registers, b in the odd      *)
(* ones, f in the flag register), as 6xkk instructions leave them.         *)
(***************************************************************************)
ByteSamples == {0, 1, 127, 128, 255}

SampleRegisters(a, b, f) ==
    [k \in RegIdx |-> IF k = VF THEN f ELSE IF k % 2 = 0 THEN a ELSE b]

InitAlu ==
    /\ phase = "api"
    /\ overflow_checks \in BOOLEAN
    /\ ins = 0
    /\ handler = ""
    /\ set_call = NoSetCall
    /\ timer_log = NoTimerLog
    /\ \E a \in ByteSamples, b \in ByteSamples, f \in ByteSamples :
         Holds([Chip8_new EXCEPT !.registers.v = SampleRegisters(a, b, f)])

AluWords == {w \in AllWords : decode(w) \in {"op8xy4", "op8xy5", "op8xy7"}}

ExecuteAlu == Execute(AluWords, {0})

SpecAlu == InitAlu /\ [][ExecuteAlu]_vars

(***************************************************************************)
(* Shifts and bitwise operations on the same sample registers.             *)
(***************************************************************************)
ShiftWords == {w \in AllWords : decode(w) \in {"op8xy6", "op8xyE"}}

ExecuteShift == Execute(ShiftWords, {0})

SpecShift == InitAlu /\ [][ExecuteShift]_vars

BitwiseWords == {w \in AllWords : decode(w) \in {"op8xy1", "op8xy2", "op8xy3"}}

ExecuteBitwise == Execute(BitwiseWords, {0})

SpecBitwise == InitAlu /\ [][ExecuteBitwise]_vars

(***************************************************************************)
(* Screen::set on its own: a Screen and calls of set, with rows and        *)
(* columns inside the grid and up to MaxWraps grids beyond it.             *)
(***************************************************************************)
MaxWraps == 1
RowInputs == {w * ROWS + r : w \in 0..MaxWraps, r \in {0, ROWS - 1}}
ColInputs == {w * COLS + q : w \in 0..MaxWraps, q \in {0, COLS - 1}}

InitScreen ==
    /\ InitMachine
    /\ phase = "screen"

SetPixel ==
    /\ phase = "screen"
    /\ \E row \in RowInputs, col \in ColInputs, val \in BOOLEAN :
         LET r == Screen_set(screen, row, col, val)
         IN /\ screen' = r.screen
            /\ set_call' = [row |-> row, col |-> col, val |-> val,
                            ans |-> r.ans, called |-> TRUE]
    /\ UNCHANGED <<registers, timers, memory, stack, pc, keyboard, phase,
                   overflow_checks, ins, handler, timer_log>>

SpecScreen == InitScreen /\ [][SetPixel]_vars

(***************************************************************************)
(* Drawing: one Dxyn on a loaded machine whose index register points at a  *)
(* font glyph, whose registers v0, v1 and v15 hold sample coordinates, and *)
(* whose display is empty or shows a glyph drawn earlier.                  *)
(***************************************************************************)
\* The machine after new and the load of an empty program image.
Loaded == load(Chip8_new, << >>)

GlyphAddresses == {0, 35}
ColSamples == {0, 62}
RowSamples == {0, 30}
FlagSamples == {0, 1}

\* The display after the five-row glyph at address g was drawn on an empty
\* display at column col and row row.
DrawnScreen(g, col, row) ==
    opDxyn([Loaded EXCEPT !.registers.i = g,
                          !.registers.v[0] = col,
                          !.registers.v[1] = row], 0, 1, 5).screen

ScreenSamples ==
    {Screen_new} \cup {DrawnScreen(0, col, col \div 2) : col \in ColSamples}

InitDraw ==
    /\ phase = "api"
    /\ overflow_checks \in BOOLEAN
    /\ ins = 0
    /\ handler = ""
    /\ set_call = NoSetCall
    /\ timer_log = NoTimerLog
    /\ \E g \in GlyphAddresses, col \in ColSamples, row \in RowSamples,
          f \in FlagSamples, s \in ScreenSamples :
         Holds([Loaded EXCEPT !.registers.i = g,
                              !.registers.v[0] = col,
                              !.registers.v[1] = row,
                              !.registers.v[VF] = f,
                              !.screen = s])

DrawWords ==
    {w \in AllWords : /\ decode(w) = "opDxyn"
                      /\ field_x(w) \in {0, 1, VF}
                      /\ field_y(w) \in {0, 1, VF}
                      /\ field_n(w) \in {0, 1, 5, 15}}

ExecuteDraw == Execute(DrawWords, {0})

SpecDraw == InitDraw /\ [][ExecuteDraw]_vars

(***************************************************************************)
(* Storing and loading registers: one Fx55 or Fx65 on a loaded machine     *)
(* whose registers hold 16 different bytes and whose index register points *)
(* into the font, at its end, into empty memory, or near the memory's end. *)
(***************************************************************************)
RegisterBases == {1, 200}
DistinctRegisters(base) == [k \in RegIdx |-> (base + 17 * k) % U8]
IndexSamples == {0, FONT_SIZE - 2, 768, MEMORY_SIZE - 6}

InitStore ==
    /\ phase = "api"
    /\ overflow_checks \in BOOLEAN
    /\ ins = 0
    /\ handler = ""
    /\ set_call = NoSetCall
    /\ timer_log = NoTimerLog
    /\ \E base \in RegisterBases, i \in IndexSamples :
         Holds([Loaded EXCEPT !.registers.v = DistinctRegisters(base),
                              !.registers.i = i])

StoreWords ==
    {w \in AllWords : /\ decode(w) \in {"opFx55", "opFx65"}
                      /\ field_kk(w) \in {85, 101}}

ExecuteStore == Execute(StoreWords, {0})

SpecStore == InitStore /\ [][ExecuteStore]_vars

(***************************************************************************)
(* Skipping on a key: one Ex9E or ExA1 on a machine whose registers all    *)
(* hold one sample byte and whose keys are as a frame's refresh left them. *)
(***************************************************************************)
KeyValueSamples == {0, 7, 15, 16, 255}

InitKeys ==
    /\ phase = "api"
    /\ overflow_checks \in BOOLEAN
    /\ ins = 0
    /\ handler = ""
    /\ set_call = NoSetCall
    /\ timer_log = NoTimerLog
    /\ \E val \in KeyValueSamples, keys \in KeyStates :
         Holds([Chip8_new EXCEPT !.registers.v = [k \in RegIdx |-> val],
                                 !.keyboard.keymap = keys])

KeyWords ==
    {w \in AllWords : /\ decode(w) \in {"opEx9E", "opExA1"}
                      /\ field_kk(w) \in {158, 161}}

ExecuteKeys == Execute(KeyWords, {0})

SpecKeys == InitKeys /\ [][ExecuteKeys]_vars

(***************************************************************************)
(* Address and register additions: one Fx1E, 7xkk, Fx55 or Fx65 on a       *)
(* machine whose index register is low, at the end of the memory, or near  *)
(* the end of its 16 bits, and whose registers all hold one sample byte.   *)
(***************************************************************************)
WideIndexSamples == {0, MEMORY_SIZE - 1, U16 - U8, U16 - 1}
AddendSamples == {0, 1, 255}

InitIndex ==
    /\ phase = "api"
    /\ overflow_checks \in BOOLEAN
    /\ ins = 0
    /\ handler = ""
    /\ set_call = NoSetCall
    /\ timer_log = NoTimerLog
    /\ \E i \in WideIndexSamples, val \in AddendSamples :
         Holds([Chip8_new EXCEPT !.registers.v = [k \in RegIdx |-> val],
                                 !.registers.i = i])

IndexWords ==
    {w \in AllWords :
        \/ decode(w) = "opFx1E"
        \/ decode(w) = "op7xkk" /\ field_x(w) \in {0, VF}
                                /\ field_kk(w) \in AddendSamples
        \/ decode(w) \in {"opFx55", "opFx65"} /\ field_x(w) \in {0, VF}
                                              /\ field_kk(w) \in {85, 101}}

ExecuteIndex == Execute(IndexWords, {0})

SpecIndex == InitIndex /\ [][ExecuteIndex]_vars

(***************************************************************************)
(* Properties of the frame loop.                                           *)
(***************************************************************************)
\* A frame is about to fetch an instruction word, and which.
Fetching == phase = "loop" /\ InMemory(pc) /\ InMemory(pc + 1)
NextWord == memory[pc] * 256 + memory[pc + 1]
DownAfter == {k \in 0..(N_KEYS - 1) : keyboard'.keymap[k]}

\* C1: a frame that executes Fx0A with no key down leaves the program
\* counter and every register as they were, however often it is repeated;
\* a frame that executes it with a key down stores the lowest key that is
\* down in register x, changes no other register, and moves the program
\* counter on by 2.
BlockForKey ==
    [][ (Fetching /\ decode(NextWord) = "opFx0A") =>
          /\ phase' = "loop"
          /\ IF DownAfter = {}
             THEN pc' = pc /\ registers' = registers /\ memory' = memory
             ELSE /\ pc' = pc + 2
                  /\ registers'.v[field_x(NextWord)] \in DownAfter
                  /\ \A k \in DownAfter : registers'.v[field_x(NextWord)] <= k
                  /\ \A j \in RegIdx \ {field_x(NextWord)} :
                        registers'.v[j] = registers.v[j]
                  /\ registers'.i = registers.i ]_vars

\* Two keys were down when FF0A was executed: the lower one is in v15.
BlockForKeyWitness ==
    /\ phase = "loop"
    /\ ins = \hFF0A
    /\ keyboard.keymap[7] /\ keyboard.keymap[15]
    /\ registers.v[15] = 7
    /\ registers.v[5] = 0
    /\ pc = \h204

\* C2: a call pushes its own address and jumps to nnn; a return pops the
\* top entry a and continues at a + 2; no other instruction touches the
\* stack; and every entry of the stack is the address of a call
\* instruction.  (With last-in first-out entries, the return that matches
\* a call finds the stack as the call left it and restores it as it was.)
CallReturnPairing ==
    [][ Fetching =>
          LET h == decode(NextWord)
              n == Len(stack)
          IN /\ h = "op2nnn" =>
                  stack' = Append(stack, pc) /\ pc' = field_nnn(NextWord)
             /\ (h = "op00EE" /\ n > 0) =>
                  /\ pc' = stack[n] + 2
                  /\ stack' = SubSeq(stack, 1, n - 1)
                  /\ phase' = "loop"
             /\ (h = "op00EE" /\ n = 0) => phase' = "panic"
             /\ h \notin {"op2nnn", "op00EE"} => stack' = stack
             /\ \A k \in 1..Len(stack') :
                  decode(memory'[stack'[k]] * 256 + memory'[stack'[k] + 1])
                    = "op2nnn" ]_vars

\* Back from the call at 0x200 and the call nested in it: the stack is
\* empty again and the instruction after the call is next.
CallReturnWitness ==
    /\ phase = "loop"
    /\ memory[PROGRAM_START + 1] = 6
    /\ handler = "op00EE"
    /\ pc = \h202
    /\ stack = << >>

\* C3: a frame that completes has executed one instruction and then
\* decremented each timer that was positive, whatever the instruction was
\* (a timer the instruction set is decremented from the value set); the
\* timers stay bytes, and a block-for-key that waits decrements them too.
TimersPerTick ==
    [][ (Fetching /\ phase' = "loop") =>
          LET h == decode(NextWord)
              x == field_x(NextWord)
              d == IF h = "opFx15" THEN registers.v[x] ELSE timers.delay
              s == IF h = "opFx18" THEN registers.v[x] ELSE timers.sound
          IN /\ timers'.delay = IF d > 0 THEN d - 1 ELSE 0
             /\ timers'.sound = IF s > 0 THEN s - 1 ELSE 0
             /\ timers'.delay \in Byte /\ timers'.sound \in Byte
             /\ ins' = NextWord /\ handler' = h ]_vars

\* A block-for-key at 0x20A found no key down and left the program counter
\* there; its frame took the delay timer from 1 to 0 and the sound timer
\* from 2 to 1, after the frames before it had counted them down from the
\* 5 and 4 they were set to.
TimersPerTickWitness ==
    /\ phase = "loop"
    /\ handler = "opFx0A"
    /\ pc = \h20A
    /\ KeysDown(Self) = {}
    /\ registers.v[2] = 2
    /\ timers.delay = 0
    /\ timers.sound = 1

\* The machine as main has it after loading the two-instruction program
\* 00E0 1200, before the first frame.
FreshClearProgram ==
    /\ phase = "loop"
    /\ handler = ""
    /\ Holds(load(Chip8_new, Image(ROM_CLEAR)))

AllPixelsOff(s) == \A p \in 0..(N_PIXELS - 1) : ~s.pixels[p]

\* C4 as stated: one frame of that machine ends with the display all
\* false and the program counter at 512.
ClearScenarioAsStated ==
    [][ FreshClearProgram => (AllPixelsOff(screen') /\ pc' = 512) ]_vars

\* C4 amended: one frame of that machine ends with the display all false
\* and the program counter at 514, after the clear-screen instruction.
ClearScenario ==
    [][ FreshClearProgram =>
          (AllPixelsOff(screen') /\ pc' = 514 /\ handler' = "op00E0") ]_vars

ClearScenarioWitness ==
    /\ phase = "loop"
    /\ memory[PROGRAM_START + 1] = \hE0
    /\ handler = "op00E0"
    /\ ins = \h00E0
    /\ pc = 514
    /\ AllPixelsOff(screen)

\* C10: a machine that was created and not yet loaded holds the font in
\* memory bytes [0, 80) and zero everywhere else, with registers, index,
\* timers, stack, display and keys clear and the program counter at 512;
\* a loaded machine holds the font there and its program from byte 512.
FreshMachineHoldsFont ==
    /\ phase = "new" =>
         /\ \A a \in 0..(FONT_SIZE - 1) : memory[a] = FONT[a + 1]
         /\ \A a \in FONT_SIZE..(MEMORY_SIZE - 1) : memory[a] = 0
         /\ registers = Chip8_new.registers
         /\ timers = Chip8_new.timers
         /\ stack = << >>
         /\ AllPixelsOff(screen)
         /\ \A k \in 0..(N_KEYS - 1) : ~keyboard.keymap[k]
         /\ pc = 512
    /\ (phase = "loop" /\ handler = "") =>
         /\ \A a \in 0..(FONT_SIZE - 1) : memory[a] = FONT[a + 1]
         /\ \E program \in Programs :
              \A k \in 1..Len(program) : memory[PROGRAM_START + k - 1] = program[k]

(***************************************************************************)
(* Properties of the decoder.                                              *)
(***************************************************************************)
\* The instruction table as the specification lists it: the handler of the
\* family a word encodes, "panic" for a word that encodes none.
Family(w) ==
    LET n == nibbles(w)
    IN CASE w = \h00E0 -> "op00E0"
         [] w = \h00EE -> "op00EE"
         [] n[1] = 1 -> "op1nnn"
         [] n[1] = 2 -> "op2nnn"
         [] n[1] = 3 -> "op3xkk"
         [] n[1] = 4 -> "op4xkk"
         [] n[1] = 5 /\ n[4] = 0 -> "op5xy0"
         [] n[1] = 6 -> "op6xkk"
         [] n[1] = 7 -> "op7xkk"
         [] n[1] = 8 /\ n[4] = 0 -> "op8xy0"
         [] n[1] = 8 /\ n[4] = 1 -> "op8xy1"
         [] n[1] = 8 /\ n[4] = 2 -> "op8xy2"
         [] n[1] = 8 /\ n[4] = 3 -> "op8xy3"
         [] n[1] = 8 /\ n[4] = 4 -> "op8xy4"
         [] n[1] = 8 /\ n[4] = 5 -> "op8xy5"
         [] n[1] = 8 /\ n[4] = 6 -> "op8xy6"
         [] n[1] = 8 /\ n[4] = 7 -> "op8xy7"
         [] n[1] = 8 /\ n[4] = 14 -> "op8xyE"
         [] n[1] = 9 /\ n[4] = 0 -> "op9xy0"
         [] n[1] = 10 -> "opAnnn"
         [] n[1] = 11 -> "opBnnn"
         [] n[1] = 12 -> "opCxkk"
         [] n[1] = 13 -> "opDxyn"
         [] n[1] = 14 /\ n[3] = 9 /\ n[4] = 14 -> "opEx9E"
         [] n[1] = 14 /\ n[3] = 10 /\ n[4] = 1 -> "opExA1"
         [] n[1] = 15 /\ n[3] = 0 /\ n[4] = 7 -> "opFx07"
         [] n[1] = 15 /\ n[3] = 0 /\ n[4] = 10 -> "opFx0A"
         [] n[1] = 15 /\ n[3] = 1 /\ n[4] = 5 -> "opFx15"
         [] n[1] = 15 /\ n[3] = 1 /\ n[4] = 8 -> "opFx18"
         [] n[1] = 15 /\ n[3] = 1 /\ n[4] = 14 -> "opFx1E"
         [] n[1] = 15 /\ n[3] = 2 /\ n[4] = 9 -> "opFx29"
         [] n[1] = 15 /\ n[3] = 3 /\ n[4] = 3 -> "opFx33"
         [] n[1] = 15 /\ n[3] = 5 /\ n[4] = 5 -> "opFx55"
         [] n[1] = 15 /\ n[3] = 6 /\ n[4] = 5 -> "opFx65"
         [] OTHER -> "panic"

Called == phase \in {"done", "panic"}

\* C5: a word that encodes a family of the table is handled by that
\* family's handler; any other word is a fatal decode error: the process
\* halts and the machine is as it was (here: as Chip8::new made it).
DecodeAsStated ==
    Called =>
      /\ handler = Family(ins)
      /\ Family(ins) = "panic" => (phase = "panic" /\ Holds(Chip8_new))

\* The half of C5 that the decoder keeps: the words of the table reach
\* their family's handler.
DecodeOfTableWords ==
    (Called /\ Family(ins) # "panic") => handler = Family(ins)

\* What the decoder does with the other words: those that match one of its
\* wider patterns run that handler; the rest halt with nothing changed.
DecodeOfOtherWords ==
    (Called /\ Family(ins) = "panic") =>
      \/ handler = "panic" /\ phase = "panic" /\ Holds(Chip8_new)
      \/ /\ handler \in {"op00E0", "op5xy0", "op9xy0", "opEx9E", "opExA1",
                         "opFx29", "opFx33", "opFx55", "opFx65"}
         /\ ~Holds(Chip8_new)

(***************************************************************************)
(* Properties of the register arithmetic.                                  *)
(***************************************************************************)
Carry(a, b) == IF a + b > 255 THEN 1 ELSE 0
NoBorrow(a, b) == IF a >= b THEN 1 ELSE 0

\* C6 as stated: after 8xy4 the flag register holds the carry of a + b and
\* register x holds (a + b) mod 256, for every x and y, x = 15 included.
AddAsStated ==
    [][ (phase = "api" /\ handler' = "op8xy4") =>
          LET x == field_x(ins')
              a == registers.v[x]
              b == registers.v[field_y(ins')]
          IN /\ registers'.v[VF] = Carry(a, b)
             /\ registers'.v[x] = (a + b) % 256
             /\ pc' = pc + 2 ]_vars

\* C6 amended: after 8xy4 the flag register holds the carry of a + b, for
\* every x and y; register x holds (a + b) mod 256 when x is not the flag
\* register; no other register changes; PC advances by 2.
AddCarry ==
    [][ (phase = "api" /\ handler' = "op8xy4") =>
          LET x == field_x(ins')
              a == registers.v[x]
              b == registers.v[field_y(ins')]
          IN /\ registers'.v[VF] = Carry(a, b)
             /\ x # VF => registers'.v[x] = (a + b) % 256
             /\ \A k \in RegIdx \ {x, VF} : registers'.v[k] = registers.v[k]
             /\ pc' = pc + 2
             /\ phase' = "done" ]_vars

\* 8xF4 was executed on v[x] = 255 and flag register 128: the sum wrapped
\* to 127 and the flag register is 1.
AddCarryWitness ==
    /\ phase = "done"
    /\ handler = "op8xy4"
    /\ field_y(ins) = VF
    /\ field_x(ins) = 2
    /\ registers.v[2] = 127
    /\ registers.v[VF] = 1
    /\ registers.v[4] = 255

\* C7 as stated: after 8xy5 the flag register is 1 iff a >= b and register
\* x holds (a - b) mod 256; after 8xy7 the flag register is 1 iff b >= a
\* and register x holds (b - a) mod 256; for every x and y.
SubAsStated ==
    [][ (phase = "api" /\ handler' \in {"op8xy5", "op8xy7"}) =>
          LET x == field_x(ins')
              a == registers.v[x]
              b == registers.v[field_y(ins')]
          IN IF handler' = "op8xy5"
             THEN /\ registers'.v[VF] = NoBorrow(a, b)
                  /\ registers'.v[x] = (a - b + 256) % 256
             ELSE /\ registers'.v[VF] = NoBorrow(b, a)
                  /\ registers'.v[x] = (b - a + 256) % 256 ]_vars

\* C7 amended: the flag is as stated for every x and y, computed from the
\* operands as they were; register x holds the wrapped difference when x
\* is not the flag register; no other register changes; PC advances by 2.
SubBorrow ==
    [][ (phase = "api" /\ handler' \in {"op8xy5", "op8xy7"}) =>
          LET x == field_x(ins')
              a == registers.v[x]
              b == registers.v[field_y(ins')]
          IN /\ IF handler' = "op8xy5"
                THEN /\ registers'.v[VF] = NoBorrow(a, b)
                     /\ x # VF => registers'.v[x] = (a - b + 256) % 256
                ELSE /\ registers'.v[VF] = NoBorrow(b, a)
                     /\ x # VF => registers'.v[x] = (b - a + 256) % 256
             /\ \A k \in RegIdx \ {x, VF} : registers'.v[k] = registers.v[k]
             /\ pc' = pc + 2
             /\ phase' = "done" ]_vars

\* 80F5 was executed on v0 = 1 and flag register 128: a borrow, the
\* difference wrapped to 129 and the flag register is 0.
SubBorrowWitness ==
    /\ phase = "done"
    /\ handler = "op8xy5"
    /\ field_x(ins) = 0
    /\ field_y(ins) = VF
    /\ registers.v[0] = 129
    /\ registers.v[2] = 1
    /\ registers.v[VF] = 0

(***************************************************************************)
(* Properties of the display.                                              *)
(***************************************************************************)
\* C8: set(row, col, value) returns 1 iff the pixel at (row mod 32,
\* col mod 64) was lit and value is true, sets that pixel to its old value
\* XOR value, and changes no other pixel, inside or outside the grid.
SetWraps ==
    [][ phase = "screen" =>
          LET idx == (set_call'.row % 32) * 64 + (set_call'.col % 64)
          IN /\ set_call'.ans =
                  (IF screen.pixels[idx] /\ set_call'.val THEN 1 ELSE 0)
             /\ screen'.pixels =
                  [screen.pixels EXCEPT ![idx] = (screen.pixels[idx] # set_call'.val)] ]_vars

\* set(63, 127, true) found the pixel (31, 63) lit, put it out and
\* returned 1, with the pixel (0, 0) lit by an earlier call.
SetWrapsWitness ==
    /\ phase = "screen"
    /\ set_call.called
    /\ set_call.row = 63 /\ set_call.col = 127
    /\ set_call.val /\ set_call.ans = 1
    /\ ~screen.pixels[31 * 64 + 63]
    /\ screen.pixels[0]

\* A Dxyn that completed, and its operands.
Drew == phase = "api" /\ handler' = "opDxyn" /\ phase' = "done"
DrewAgain ==
    opDxyn(SelfAfter, field_x(ins'), field_y(ins'), field_n(ins'))

\* C9 as stated: the same Dxyn executed a second time, right after the
\* first, leaves the display as it was before the first, for every x and y,
\* the flag register included.
DoubleDrawAsStated ==
    [][ Drew => DrewAgain.screen = screen ]_vars

\* The part of C9 that the code keeps: the display is restored when
\* neither operand register is the flag register.
DoubleDrawOtherRegisters ==
    [][ (Drew /\ field_x(ins') # VF /\ field_y(ins') # VF) =>
          DrewAgain.screen = screen ]_vars

(***************************************************************************)
(* Properties of the program counter.                                      *)
(***************************************************************************)
\* C11: whenever main's loop is about to run a frame, pc and pc + 1 are
\* both indices of the memory, so that the fetch of the frame succeeds.
ProgramCounterValid ==
    phase = "loop" => (InMemory(pc) /\ InMemory(pc + 1))

\* What becomes of a frame whose fetch is out of the memory: it panics.
FetchOutOfMemory ==
    [][ (phase = "loop" /\ ~(InMemory(pc) /\ InMemory(pc + 1))) =>
          phase' = "panic" ]_vars

(***************************************************************************)
(* The random instruction: one Cxkk on a new machine, with every byte the  *)
(* generator can return.                                                   *)
(***************************************************************************)
MaskSamples == {0, 15, 170, 255}

RandomWords ==
    {w \in AllWords : /\ decode(w) = "opCxkk"
                      /\ field_x(w) \in {0, VF}
                      /\ field_kk(w) \in MaskSamples}

ExecuteRandom == Execute(RandomWords, gen_range)

SpecRandom == InitDecode /\ [][ExecuteRandom]_vars

\* The results the claim lists for a Cxkk word: r AND kk for every byte r.
MaskedBytes(w) == {BitAnd(r, field_kk(w)) : r \in Byte}

\* C12: after Cxkk register x holds r AND kk for some byte r and PC has
\* advanced by 2, and every value r AND kk with r in 0..255 is a value the
\* instruction can leave in register x (255 included, when kk = 0xFF).
RandomAsStated ==
    /\ (phase = "done" /\ handler = "opCxkk") =>
          /\ registers.v[field_x(ins)] \in MaskedBytes(ins)
          /\ pc = PROGRAM_START + 2
    /\ phase = "api" =>
          /\ \A w \in RandomWords :
                field_kk(w) = 255 =>
                  ENABLED (Execute({w}, gen_range) /\ registers'.v[field_x(w)] = 255)
          /\ \A w \in RandomWords : \A v \in MaskedBytes(w) :
                ENABLED (Execute({w}, gen_range) /\ registers'.v[field_x(w)] = v)

\* What the code keeps of C12: the result is r AND kk for a byte r below
\* 255, PC advances by 2, and no other register changes.
RandomBelow255 ==
    [][ (phase = "api" /\ handler' = "opCxkk") =>
          /\ \E r \in 0..254 :
                registers'.v[field_x(ins')] = BitAnd(r, field_kk(ins'))
          /\ \A k \in RegIdx \ {field_x(ins')} : registers'.v[k] = registers.v[k]
          /\ pc' = pc + 2
          /\ phase' = "done" ]_vars

\* No Cxkk leaves 255 in its register.
RandomNever255 ==
    (phase = "done" /\ handler = "opCxkk") => registers.v[field_x(ins)] # 255

(***************************************************************************)
(* Properties of loading.                                                  *)
(***************************************************************************)
\* C13: a load that returns an error (main then exits) leaves every part
\* of the machine as it was, and so does the load of a file too long for
\* the memory, which panics; a load that succeeds leaves the machine that
\* Chip8::load makes of a whole program image; and a load happens once:
\* nothing follows a failed load, and no step leads back to loading.
LoadAtomic ==
    [][ /\ phase = "new" =>
             /\ phase' \in {"exit", "panic"} =>
                  UNCHANGED <<registers, timers, screen, memory, stack, pc,
                              keyboard>>
             /\ phase' = "loop" =>
                  \E p \in Programs : Holds(load(Chip8_new, p))'
        /\ phase # "exit"
        /\ phase' # "new" ]_vars

\* main has exited on a load error with the machine as Chip8::new made it:
\* no font byte and no program byte in memory.
LoadAtomicWitness ==
    /\ phase = "exit"
    /\ Holds(Chip8_new)
    /\ memory[0] = 0 /\ memory[PROGRAM_START] = 0

(***************************************************************************)
(* Properties of the shifts and of the bitwise operations.                 *)
(***************************************************************************)
\* C14: after 8xy6 the flag register holds a mod 2 and register x holds
\* a div 2; after 8xyE the flag register holds bit 7 of a and register x
\* holds 2a mod 256; when x is the flag register the flag is what it
\* holds; the result is a function of a alone (register y is not read),
\* no other register changes, and PC advances by 2.
ShiftFlags ==
    [][ (phase = "api" /\ handler' \in {"op8xy6", "op8xyE"}) =>
          LET x == field_x(ins')
              a == registers.v[x]
          IN /\ IF handler' = "op8xy6"
                THEN /\ registers'.v[VF] = a % 2
                     /\ x # VF => registers'.v[x] = a \div 2
                ELSE /\ registers'.v[VF] = (a \div 128) % 2
                     /\ x # VF => registers'.v[x] = (2 * a) % 256
             /\ \A k \in RegIdx \ {x, VF} : registers'.v[k] = registers.v[k]
             /\ registers'.i = registers.i
             /\ pc' = pc + 2
             /\ phase' = "done" ]_vars

\* 8F1E was executed on a flag register with bit 7 set: the flag register
\* holds the bit shifted out, 1, and not the shifted value, which is even.
ShiftFlagsWitness ==
    /\ phase = "done"
    /\ handler = "op8xyE"
    /\ field_x(ins) = VF
    /\ field_y(ins) = 1
    /\ registers.v[VF] = 1
    /\ registers.v[0] = 128
    /\ registers.v[1] = 255

\* The result an operation of the three leaves in register x, bit by bit.
BitwiseOf(h, after, a, b) ==
    \A k \in 0..7 :
       Bit(after, k) = (CASE h = "op8xy1" -> IF Bit(a, k) + Bit(b, k) >= 1 THEN 1 ELSE 0
                          [] h = "op8xy2" -> IF Bit(a, k) + Bit(b, k) = 2 THEN 1 ELSE 0
                          [] h = "op8xy3" -> IF Bit(a, k) + Bit(b, k) = 1 THEN 1 ELSE 0)

\* C16 as stated: after 8xy1, 8xy2, 8xy3 register x holds the OR, AND,
\* XOR of a and b and the flag register holds 0, for every x and y, x = 15
\* included.
BitwiseAsStated ==
    [][ (phase = "api" /\ handler' \in {"op8xy1", "op8xy2", "op8xy3"}) =>
          LET x == field_x(ins')
              a == registers.v[x]
              b == registers.v[field_y(ins')]
          IN /\ BitwiseOf(handler', registers'.v[x], a, b)
             /\ registers'.v[VF] = 0
             /\ \A k \in RegIdx \ {x, VF} : registers'.v[k] = registers.v[k]
             /\ pc' = pc + 2 ]_vars

\* C16 amended: the flag register holds 0 for every x and y; register x
\* holds the OR, AND, XOR of a and b when x is not the flag register; no
\* other register changes; PC advances by 2.
BitwiseClearsFlag ==
    [][ (phase = "api" /\ handler' \in {"op8xy1", "op8xy2", "op8xy3"}) =>
          LET x == field_x(ins')
              a == registers.v[x]
              b == registers.v[field_y(ins')]
          IN /\ x # VF => BitwiseOf(handler', registers'.v[x], a, b)
             /\ registers'.v[VF] = 0
             /\ \A k \in RegIdx \ {x, VF} : registers'.v[k] = registers.v[k]
             /\ registers'.i = registers.i
             /\ pc' = pc + 2
             /\ phase' = "done" ]_vars

\* 8F01 was executed on v0 = 255: the OR is 255 whatever the flag register
\* held, and the flag register holds 0.
BitwiseClearsFlagWitness ==
    /\ phase = "done"
    /\ handler = "op8xy1"
    /\ field_x(ins) = VF
    /\ field_y(ins) = 0
    /\ registers.v[0] = 255
    /\ registers.v[VF] = 0

(***************************************************************************)
(* Properties of drawing.                                                  *)
(***************************************************************************)
\* The sprite as the instruction is specified to draw it, from the machine
\* before the instruction: whether a sprite bit that is set falls on pixel
\* p, with the sprite's corner at (vy, vx) and its n rows at index on.
SpriteOn(p, vx, vy, n) ==
    LET r == ((p \div COLS) + U8 - vy) % ROWS
        q == ((p % COLS) + U8 - vx) % COLS
    IN r < n /\ q < 8 /\ Bit(memory[registers.i + r], 7 - q) = 1

\* What a Dxyn that drew the sprite at the place its operand registers
\* named before the instruction has done.
DrewSprite ==
    LET vx == registers.v[field_x(ins')]
        vy == registers.v[field_y(ins')]
        n  == field_n(ins')
    IN /\ screen'.pixels =
            [p \in 0..(N_PIXELS - 1) |->
                screen.pixels[p] # SpriteOn(p, vx, vy, n)]
       /\ registers'.v[VF] =
            (IF \E p \in 0..(N_PIXELS - 1) :
                   screen.pixels[p] /\ SpriteOn(p, vx, vy, n)
             THEN 1 ELSE 0)
       /\ \A k \in RegIdx \ {VF} : registers'.v[k] = registers.v[k]
       /\ registers'.i = registers.i
       /\ memory' = memory
       /\ stack' = stack
       /\ pc' = pc + 2

\* C15 as stated: a Dxyn XORs every sprite bit into the pixel at
\* ((register y + r) mod 32, (register x + c) mod 64), leaves the flag
\* register 1 iff a lit pixel was turned off and 0 otherwise, changes no
\* other register, nor index, memory or stack, and advances PC by 2, for
\* every x and y.
DrawAsStated ==
    [][ Drew => DrewSprite ]_vars

\* The part of C15 that the code keeps: the same when neither operand
\* register is the flag register.
DrawOtherRegisters ==
    [][ (Drew /\ field_x(ins') # VF /\ field_y(ins') # VF) => DrewSprite ]_vars

(***************************************************************************)
(* Properties of storing and loading registers.                            *)
(***************************************************************************)
\* The machine after an Fx55, with the index register put back to where it
\* was, after an Fx65 with the same x.
LoadedBack ==
    opFx65([SelfAfter EXCEPT !.registers.i = registers.i], field_x(ins'))

\* C17: an Fx55 with index = I, where memory holds I .. I + x, writes
\* register k to memory[I + k] for k in 0..x and changes no other byte and
\* no register; an Fx65 sets register k to memory[I + k] for k in 0..x and
\* changes no other register and no memory; both set index to I + x + 1
\* and advance PC by 2; and an Fx65 from I after the Fx55 leaves registers
\* 0..x as they were before the Fx55.
StoreLoadRoundTrip ==
    [][ (phase = "api" /\ handler' \in {"opFx55", "opFx65"}) =>
          LET x == field_x(ins')
              I == registers.i
          IN IF I + x < MEMORY_SIZE
             THEN /\ phase' = "done"
                  /\ registers'.i = I + x + 1
                  /\ pc' = pc + 2
                  /\ handler' = "opFx55" =>
                       /\ memory' = [a \in 0..(MEMORY_SIZE - 1) |->
                                       IF a >= I /\ a <= I + x
                                       THEN registers.v[a - I] ELSE memory[a]]
                       /\ registers'.v = registers.v
                       /\ ~LoadedBack.panicked
                       /\ \A k \in 0..x : LoadedBack.registers.v[k] = registers.v[k]
                       /\ LoadedBack.memory = memory'
                  /\ handler' = "opFx65" =>
                       /\ registers'.v = [k \in RegIdx |->
                                            IF k <= x THEN memory[I + k]
                                            ELSE registers.v[k]]
                       /\ memory' = memory
             ELSE phase' = "panic" ]_vars

\* F265 was executed with index = 78: registers 0 and 1 hold the last two
\* bytes of the font, register 2 the zero after it, register 3 is as it
\* was, and index is 81.
StoreLoadWitness ==
    /\ phase = "done"
    /\ ins = \hF265
    /\ registers.v[0] = 128 /\ registers.v[1] = 128 /\ registers.v[2] = 0
    /\ registers.v[3] = 52
    /\ registers.i = 81

(***************************************************************************)
(* Properties of the key instructions.                                     *)
(***************************************************************************)
\* Whether the key that register x names is down; a value that names no
\* key names no key that is down.
NamedKeyDown ==
    /\ registers.v[field_x(ins')] \in 0..(N_KEYS - 1)
    /\ keyboard.keymap[registers.v[field_x(ins')]]

\* C18 as stated: for every x and every value of register x, Ex9E
\* advances PC by 4 if the key the value names is down and by 2 otherwise,
\* ExA1 the other way round; the instruction completes; and it writes no
\* key state.
SkipOnKeyAsStated ==
    [][ (phase = "api" /\ handler' \in {"opEx9E", "opExA1"}) =>
          /\ phase' = "done"
          /\ pc' = pc + (IF (handler' = "opEx9E") = NamedKeyDown THEN 4 ELSE 2)
          /\ keyboard' = keyboard ]_vars

\* What the code keeps of C18: the same for the values 0..15, and a panic
\* after the first pc += 2 for every other value.
SkipOnKeyInRange ==
    [][ (phase = "api" /\ handler' \in {"opEx9E", "opExA1"}) =>
          /\ IF registers.v[field_x(ins')] < N_KEYS
             THEN /\ phase' = "done"
                  /\ pc' = pc + (IF (handler' = "opEx9E") = NamedKeyDown
                                 THEN 4 ELSE 2)
             ELSE phase' = "panic" /\ pc' = pc + 2
          /\ keyboard' = keyboard
          /\ registers' = registers ]_vars

\* No instruction writes a key state: one call of execute_instruction,
\* whatever the word, leaves the keys as they were.
KeysReadOnly ==
    [][ phase = "api" => keyboard' = keyboard ]_vars

(***************************************************************************)
(* Properties of the additions.                                            *)
(***************************************************************************)
\* What 7xkk does, and what Fx55 and Fx65 do to the index register when
\* the memory holds the bytes they address.
AddImmediateWraps ==
    /\ handler' = "op7xkk" =>
         /\ registers'.v[field_x(ins')] =
               (registers.v[field_x(ins')] + field_kk(ins')) % 256
         /\ phase' = "done"
         /\ pc' = pc + 2
    /\ (/\ handler' \in {"opFx55", "opFx65"}
        /\ registers.i + field_x(ins') < MEMORY_SIZE) =>
         /\ registers'.i = (registers.i + field_x(ins') + 1) % 65536
         /\ phase' = "done"

\* C19 as stated: Fx1E sets index to (index + register x) mod 65536 for
\* every index and register value, never fails, changes no register, and
\* advances PC by 2; 7xkk and the index update of Fx55 and Fx65 wrap too.
WrappingAsStated ==
    [][ phase = "api" =>
          /\ handler' = "opFx1E" =>
               /\ registers'.i =
                     (registers.i + registers.v[field_x(ins')]) % 65536
               /\ registers'.v = registers.v
               /\ phase' = "done"
               /\ pc' = pc + 2
          /\ AddImmediateWraps ]_vars

\* What the code keeps of C19: the same in a build without overflow
\* checks; a build with them panics, with nothing changed, when the sum
\* does not fit 16 bits.
WrappingByBuild ==
    [][ phase = "api" =>
          /\ handler' = "opFx1E" =>
               LET sum == registers.i + registers.v[field_x(ins')]
               IN IF overflow_checks /\ sum > 65535
                  THEN phase' = "panic" /\ registers' = registers /\ pc' = pc
                  ELSE /\ registers'.i = sum % 65536
                       /\ registers'.v = registers.v
                       /\ phase' = "done"
                       /\ pc' = pc + 2
          /\ AddImmediateWraps ]_vars

(***************************************************************************)
(* Properties of the timers across frames.                                 *)
(***************************************************************************)
\* The value of a timer that was set to v, k frames ago counting the frame
\* that set it.
CountedDown(e) == IF e.v > e.ticks THEN e.v - e.ticks ELSE 0

\* C20: at the end of the frame whose Fx15 (Fx18) set a timer to v the
\* timer holds max(v - 1, 0), and k frames after the set it holds
\* max(v - k, 0), whatever was executed in between; an Fx07 executed k
\* frames after the Fx15 reads max(v - k, 0); and setting one timer leaves
\* the other to its own countdown.
TimerCountdown ==
    [][ (Fetching /\ phase' = "loop") =>
          LET h == decode(NextWord)
              x == field_x(NextWord)
          IN /\ timer_log'.delay.set =>
                  timers'.delay = CountedDown(timer_log'.delay)
             /\ timer_log'.sound.set =>
                  timers'.sound = CountedDown(timer_log'.sound)
             /\ h = "opFx15" =>
                  /\ timers'.delay = (IF registers.v[x] > 0
                                      THEN registers.v[x] - 1 ELSE 0)
                  /\ timers'.sound = (IF timers.sound > 0
                                      THEN timers.sound - 1 ELSE 0)
             /\ h = "opFx18" =>
                  /\ timers'.sound = (IF registers.v[x] > 0
                                      THEN registers.v[x] - 1 ELSE 0)
                  /\ timers'.delay = (IF timers.delay > 0
                                      THEN timers.delay - 1 ELSE 0)
             /\ (h = "opFx07" /\ timer_log.delay.set) =>
                  registers'.v[x] = CountedDown(timer_log.delay) ]_vars

\* F207 was executed 3 frames after an Fx15 that set the delay timer to 5
\* and read 2; its frame was the 4th since then and the 2nd since an Fx18
\* set the sound timer to 4.
TimerCountdownWitness ==
    /\ phase = "loop"
    /\ ins = \hF207
    /\ registers.v[2] = 2
    /\ timer_log.delay = [set |-> TRUE, v |-> 5, ticks |-> 4]
    /\ timer_log.sound = [set |-> TRUE, v |-> 4, ticks |-> 2]
    /\ timers.delay = 1
    /\ timers.sound = 2

\* F207 was executed again, more frames after the Fx15 than the timer was
\* set to, and read 0.
TimerRanOut ==
    /\ phase = "loop"
    /\ ins = \hF207
    /\ registers.v[2] = 0
    /\ timer_log.delay.set
    /\ timer_log.delay.ticks > timer_log.delay.v
====
